---- MODULE Spec2Model ----
(***************************************************************************)
(* A model of bumblebee's two engines:                                     *)
(*   - the directory comparator   (src-tauri/src/main.rs): compare, with   *)
(*     its path-set walk, sub-directory collapsing, hashing and sorting;   *)
(*   - the disk usage analyzer    (src-tauri/src/disk_space.rs): the       *)
(*     cancellable traversal, the debounced progress callback and the      *)
(*     cached result served by load_nested_directory.                      *)
(* Paths are sequences of one-character strings, so that prefix tests and  *)
(* the byte-wise string order are computed as the code computes them.      *)
(***************************************************************************)
EXTENDS Integers, Sequences, FiniteSets, TLC

VARIABLES
    cmpFs,        \* comparator: root name -> the directory tree on disk
    cmpResult,    \* comparator: <<path_a, path_b>> -> what compare returned
    copied,       \* comparator: the last call of copy, its answer, and what
                  \* compare had returned before it, Option
    should_abort, \* analyzer: the ShouldAbort flag (AtomicBool)
    saved_result, \* analyzer: the SavedAnalysisResult slot, Option<Entry>
    now,          \* analyzer: the clock Instant::now() reads, in ms
    pc,           \* per invocation of analyze_disk_usage: where it stands
    root,         \* per invocation: the path argument
    stack,        \* per invocation: the analyze_directory_recursive frames
    found,        \* per invocation: context.number_of_files_found
    last_run,     \* per invocation: the Debounce's last_run, Option<Instant>
    walked,       \* per invocation: what the traversal returned, Option<Entry>
    ret,          \* per invocation: the returned AnalyseResult.result, Option<Entry>
    emitted,      \* the last "progress" event delivered, Option<ProgressPayload>
    loaded,       \* the last load_nested_directory call and its answer
    offered,      \* history: the calls of maybe_run an invocation made: payload,
                  \* time, and whether the callback ran
    listed,       \* history: the directories an invocation called read_dir on
    flag_at_invoke, \* history: the flag's value when the invocation began
    abort_at,     \* history: when abort was first called during the invocation
    last_ok,      \* history: the tree of the last invocation that returned a
                  \* result other than "Aborted", Option<Entry>
    load_pc,      \* load_nested_directory: "locked" while it holds the slot's lock
    load_req,     \* the load_nested_directory call taken step by step: its
                  \* path and the slot as it was when the call took the lock
    abort_before  \* history, per invocation: the flag was set when it began,
                  \* by an abort that found no analysis in flight

cmpVars == <<cmpFs, cmpResult, copied>>

anVars ==
    <<should_abort, saved_result, now, pc, root, stack, found, last_run, walked,
      ret, emitted, loaded, offered, listed, flag_at_invoke, abort_at, last_ok,
      load_pc, load_req, abort_before>>

loadVars == <<load_pc, load_req>>

abortHist == <<abort_before>>

vars == <<cmpVars, anVars>>

(***************************************************************************)
(* Bounds of the model.                                                    *)
(***************************************************************************)
NumContents == 2      \* distinct byte contents a regular file may hold
MaxTicks == 3         \* how often the clock advances

(***************************************************************************)
(* Strings.                                                                *)
(***************************************************************************)
Min(a, b) == IF a <= b THEN a ELSE b

\* The byte value of the characters the model's paths are made of.
CharCode(c) ==
    CASE c = "." -> 46
      [] c = "/" -> 47
      [] c = "A" -> 65
      [] c = "B" -> 66
      [] c = "a" -> 97
      [] c = "b" -> 98
      [] c = "c" -> 99
      [] c = "r" -> 114
      [] c = "x" -> 120

\* str::starts_with
StartsWith(s, prefix) ==
    /\ Len(prefix) <= Len(s)
    /\ \A i \in 1..Len(prefix) : s[i] = prefix[i]

\* Ord for String: byte-wise lexicographic, a proper prefix sorts first.
StrLess(s, t) ==
    \E i \in 1..(Min(Len(s), Len(t)) + 1) :
        /\ \A j \in 1..(i - 1) : s[j] = t[j]
        /\ \/ i > Len(s) /\ i <= Len(t)
           \/ i <= Len(s) /\ i <= Len(t) /\ CharCode(s[i]) < CharCode(t[i])

\* Path::join
PathJoin(base, sub) == base \o <<"/">> \o sub

\* Path::strip_prefix, for a path that is base or lies below it
StripPrefix(full, base) ==
    IF full = base THEN <<>> ELSE SubSeq(full, Len(base) + 2, Len(full))

(***************************************************************************)
(* The comparator's file system: two roots, each a small directory tree.   *)
(* A tree is a root state and a node for every relative path of RelPaths.  *)
(***************************************************************************)
Roots == { <<"A">>, <<"B">> }

\* The calls of compare the model makes: both orders of the two roots.
Calls == { <<a, b>> \in Roots \X Roots : a # b }

\* "a", its child "a/ab", and "ab", whose name merely starts with "a" and is
\* the file name of "a/ab".
RelPaths == { <<"a">>, <<"a", "/", "a", "b">>, <<"a", "b">> }

Contents == 1..NumContents

Absent == [kind |-> "Absent", content |-> 0, readable |-> TRUE]

\* What may lie at a path: nothing, a directory (listable or not), a regular
\* file (with some bytes, readable or not) or an entry of another kind (a
\* dangling link, a fifo, ...).
Nodes ==
    { Absent }
    \cup [kind : {"Dir"}, content : {0}, readable : BOOLEAN]
    \cup [kind : {"File"}, content : Contents, readable : {TRUE}]
    \cup [kind : {"File"}, content : {0}, readable : {FALSE}]
    \cup [kind : {"Unknown"}, content : {0}, readable : {TRUE}]

\* The parent of a relative path; <<>> is the root itself.
RECURSIVE ParentOf(_)
ParentOf(p) ==
    IF p = <<>> THEN <<>>
    ELSE IF p[Len(p)] = "/" THEN SubSeq(p, 1, Len(p) - 1)
    ELSE IF \A i \in 1..Len(p) : p[i] # "/" THEN <<>>
    ELSE ParentOf(SubSeq(p, 1, Len(p) - 1))

\* Trees a disk can hold: an entry exists only inside a listable directory of
\* an existing root.
WellFormed(t) ==
    /\ t.root # "ok" => \A p \in RelPaths : t.nodes[p] = Absent
    /\ \A p \in RelPaths :
          (t.nodes[p] # Absent /\ ParentOf(p) # <<>>) =>
              /\ t.nodes[ParentOf(p)].kind = "Dir"
              /\ t.nodes[ParentOf(p)].readable

Trees ==
    { t \in [root : {"ok", "missing", "denied"}, nodes : [RelPaths -> Nodes]] :
        WellFormed(t) }

\* The node a relative path names in a tree (the root is a directory).
NodeAt(t, rel) ==
    IF rel = <<>>
    THEN IF t.root = "missing" THEN Absent
         ELSE [kind |-> "Dir", content |-> 0, readable |-> t.root = "ok"]
    ELSE IF rel \in RelPaths THEN t.nodes[rel] ELSE Absent

\* The node a full path names on disk.
EntryAt(fs, full) ==
    IF \E r \in Roots : full = r \/ StartsWith(full, r \o <<"/">>)
    THEN LET r == CHOOSE r \in Roots : full = r \/ StartsWith(full, r \o <<"/">>)
         IN  NodeAt(fs[r], StripPrefix(full, r))
    ELSE Absent

\* Path::is_file, Path::is_dir
IsFile(fs, full) == EntryAt(fs, full).kind = "File"
IsDir(fs, full) == EntryAt(fs, full).kind = "Dir"

(***************************************************************************)
(* Findings (enum CompareResult) and their derived total order.            *)
(***************************************************************************)
CouldNotReadDirectory(path, message) ==
    [type |-> "CouldNotReadDirectory", path |-> path, message |-> message]
CouldNotCalculateHash(path, message) ==
    [type |-> "CouldNotCalculateHash", path |-> path, message |-> message]
MissingInDirA(path) == [type |-> "MissingInDirA", path |-> path]
MissingInDirB(path) == [type |-> "MissingInDirB", path |-> path]
DifferingContent(path) == [type |-> "DifferingContent", path |-> path]
TypeMismatch(path, ta, tb) ==
    [type |-> "TypeMismatch", path |-> path,
     type_in_dir_a |-> ta, type_in_dir_b |-> tb]

\* derive(Ord) on enum EntryType: the order of declaration
EntryTypeRank(t) ==
    CASE t = "Directory" -> 0
      [] t = "File" -> 1
      [] t = "Unknown" -> 2

\* derive(Ord) on enum CompareResult: the order of declaration
VariantRank(f) ==
    CASE f.type = "CouldNotReadDirectory" -> 0
      [] f.type = "CouldNotCalculateHash" -> 1
      [] f.type = "MissingInDirA" -> 2
      [] f.type = "MissingInDirB" -> 3
      [] f.type = "DifferingContent" -> 4
      [] f.type = "TypeMismatch" -> 5

\* The messages of the I/O errors the model's disks produce, in string order.
MessageRank(m) ==
    CASE m = "No such file or directory (os error 2)" -> 0
      [] m = "Permission denied (os error 13)" -> 1

\* f < g in the derived order: the variant first, then the fields in order.
FindingLess(f, g) ==
    \/ VariantRank(f) < VariantRank(g)
    \/ /\ f.type = g.type
       /\ \/ StrLess(f.path, g.path)
          \/ /\ f.path = g.path
             /\ \/ /\ f.type \in {"CouldNotReadDirectory", "CouldNotCalculateHash"}
                   /\ MessageRank(f.message) < MessageRank(g.message)
                \/ /\ f.type = "TypeMismatch"
                   /\ \/ EntryTypeRank(f.type_in_dir_a) < EntryTypeRank(g.type_in_dir_a)
                      \/ /\ f.type_in_dir_a = g.type_in_dir_a
                         /\ EntryTypeRank(f.type_in_dir_b) < EntryTypeRank(g.type_in_dir_b)

\* Vec::sort: a stable insertion of each element behind those not greater.
RECURSIVE InsertFinding(_, _)
InsertFinding(sorted, f) ==
    IF sorted = <<>> THEN <<f>>
    ELSE IF FindingLess(f, sorted[1]) THEN <<f>> \o sorted
    ELSE <<sorted[1]>> \o InsertFinding(Tail(sorted), f)

RECURSIVE SortFindings(_)
SortFindings(fs) ==
    IF fs = <<>> THEN <<>>
    ELSE InsertFinding(SortFindings(SubSeq(fs, 1, Len(fs) - 1)), fs[Len(fs)])

(***************************************************************************)
(* Iteration orders.  A HashSet and a directory listing hand out their     *)
(* elements in an order the program does not control: the model offers the *)
(* ascending and the descending one.                                       *)
(***************************************************************************)
RECURSIVE SortedSeq(_)
SortedSeq(S) ==
    IF S = {} THEN <<>>
    ELSE LET m == CHOOSE x \in S : \A y \in S : x = y \/ StrLess(x, y)
         IN  <<m>> \o SortedSeq(S \ {m})

Reverse(s) == [i \in 1..Len(s) |-> s[Len(s) + 1 - i]]

IterOrder(S, rev) == IF rev THEN Reverse(SortedSeq(S)) ELSE SortedSeq(S)

(***************************************************************************)
(* PathSetBuilder: get_directory_content_recursively.                      *)
(***************************************************************************)
ChildrenOf(t, rel) ==
    { p \in RelPaths : ParentOf(p) = rel /\ t.nodes[p] # Absent }

\* What WalkDir yields below (and including) rel: Ok(entry) for every entry it
\* reaches, Err for a root that does not exist and for every directory it
\* cannot list (after the directory's own entry).
RECURSIVE WalkDir(_, _, _)
WalkDir(t, dir, rel) ==
    LET n == NodeAt(t, rel)
        full == IF rel = <<>> THEN dir ELSE PathJoin(dir, rel)
    IN  IF n = Absent
        THEN { [ok |-> FALSE, path |-> full,
                message |-> "No such file or directory (os error 2)"] }
        ELSE { [ok |-> TRUE, path |-> full, message |-> ""] }
             \cup IF n.kind # "Dir" THEN {}
                  ELSE IF ~n.readable
                  THEN { [ok |-> FALSE, path |-> full,
                          message |-> "Permission denied (os error 13)"] }
                  ELSE UNION { WalkDir(t, dir, c) : c \in ChildrenOf(t, rel) }

get_directory_content_recursively(fs, dir, rev) ==
    LET yielded == WalkDir(fs[dir], dir, <<>>)
        failed == IterOrder({ e.path : e \in { w \in yielded : ~w.ok } }, rev)
        why(path) == CHOOSE w \in yielded : ~w.ok /\ w.path = path
    IN  [filenames |-> { StripPrefix(e.path, dir) : e \in { w \in yielded : w.ok } },
         errors |-> [i \in 1..Len(failed) |->
                        CouldNotReadDirectory(failed[i], why(failed[i]).message)]]

(***************************************************************************)
(* SubtreeCollapser: remove_subdirectories.                                *)
(***************************************************************************)
\* Itertools::coalesce with |a, b| if b.starts_with(a) { Ok(a) } else { Err((a, b)) }
RECURSIVE Coalesce(_, _)
Coalesce(a, rest) ==
    IF rest = <<>> THEN <<a>>
    ELSE IF StartsWith(rest[1], a) THEN Coalesce(a, Tail(rest))
    ELSE <<a>> \o Coalesce(rest[1], Tail(rest))

remove_subdirectories(paths) ==
    LET sorted == SortedSeq(paths)
    IN  IF sorted = <<>> THEN <<>> ELSE Coalesce(sorted[1], Tail(sorted))

(***************************************************************************)
(* ContentHasher.  SHA-256 is modelled as collision-free on the contents   *)
(* of the model: the digest names the bytes it was computed from.          *)
(***************************************************************************)
sha256_digest(content) == <<"SHA256", content>>

get_file_content_hash(fs, full) ==
    LET n == EntryAt(fs, full)
    IN  IF n.kind = "File" /\ n.readable
        THEN [ok |-> TRUE, hash |-> <<"HEXUPPER">> \o sha256_digest(n.content),
              message |-> ""]
        ELSE [ok |-> FALSE, hash |-> <<>>,
              message |-> "Permission denied (os error 13)"]

(***************************************************************************)
(* DirectoryComparator.                                                    *)
(***************************************************************************)
get_entry_type(fs, full) ==
    IF IsDir(fs, full) THEN "Directory"
    ELSE IF IsFile(fs, full) THEN "File"
    ELSE "Unknown"

\* compare_entry without the comparison of the two hashes.
compare_entry_NoHashCompare(fs, dir_a_path, dir_b_path, sub_path) ==
    LET path_a == PathJoin(dir_a_path, sub_path)
        path_b == PathJoin(dir_b_path, sub_path)
        hash_a == get_file_content_hash(fs, path_a)
        hash_b == get_file_content_hash(fs, path_b)
    IN  IF IsFile(fs, path_a) /\ IsFile(fs, path_b)
        THEN IF ~hash_a.ok THEN <<CouldNotCalculateHash(path_a, hash_a.message)>>
             ELSE IF ~hash_b.ok THEN <<CouldNotCalculateHash(path_b, hash_b.message)>>
             ELSE <<>>
        ELSE IF ~(IsDir(fs, path_a) /\ IsDir(fs, path_b))
        THEN <<TypeMismatch(sub_path, get_entry_type(fs, path_a),
                            get_entry_type(fs, path_b))>>
        ELSE <<>>

\* compare_entry with the two observed kinds stored in each other's field.
compare_entry_SwappedTypes(fs, dir_a_path, dir_b_path, sub_path) ==
    LET path_a == PathJoin(dir_a_path, sub_path)
        path_b == PathJoin(dir_b_path, sub_path)
        hash_a == get_file_content_hash(fs, path_a)
        hash_b == get_file_content_hash(fs, path_b)
    IN  IF IsFile(fs, path_a) /\ IsFile(fs, path_b)
        THEN IF ~hash_a.ok THEN <<CouldNotCalculateHash(path_a, hash_a.message)>>
             ELSE IF ~hash_b.ok THEN <<CouldNotCalculateHash(path_b, hash_b.message)>>
             ELSE IF hash_a.hash # hash_b.hash THEN <<DifferingContent(sub_path)>>
             ELSE <<>>
        ELSE IF ~(IsDir(fs, path_a) /\ IsDir(fs, path_b))
        THEN <<TypeMismatch(sub_path, get_entry_type(fs, path_b),
                            get_entry_type(fs, path_a))>>
        ELSE <<>>

\* compare_entry hashing the file of dir b before the file of dir a.
compare_entry_HashBFirst(fs, dir_a_path, dir_b_path, sub_path) ==
    LET path_a == PathJoin(dir_a_path, sub_path)
        path_b == PathJoin(dir_b_path, sub_path)
        hash_a == get_file_content_hash(fs, path_a)
        hash_b == get_file_content_hash(fs, path_b)
    IN  IF IsFile(fs, path_a) /\ IsFile(fs, path_b)
        THEN IF ~hash_b.ok THEN <<CouldNotCalculateHash(path_b, hash_b.message)>>
             ELSE IF ~hash_a.ok THEN <<CouldNotCalculateHash(path_a, hash_a.message)>>
             ELSE IF hash_a.hash # hash_b.hash THEN <<DifferingContent(sub_path)>>
             ELSE <<>>
        ELSE IF ~(IsDir(fs, path_a) /\ IsDir(fs, path_b))
        THEN <<TypeMismatch(sub_path, get_entry_type(fs, path_a),
                            get_entry_type(fs, path_b))>>
        ELSE <<>>

\* Result<(), CompareResult>: <<>> is Ok(()), <<f>> is Err(f).
compare_entry(fs, dir_a_path, dir_b_path, sub_path) ==
    LET path_a == PathJoin(dir_a_path, sub_path)
        path_b == PathJoin(dir_b_path, sub_path)
        hash_a == get_file_content_hash(fs, path_a)
        hash_b == get_file_content_hash(fs, path_b)
    IN  IF IsFile(fs, path_a) /\ IsFile(fs, path_b)
        THEN IF ~hash_a.ok THEN <<CouldNotCalculateHash(path_a, hash_a.message)>>
             ELSE IF ~hash_b.ok THEN <<CouldNotCalculateHash(path_b, hash_b.message)>>
             ELSE IF hash_a.hash # hash_b.hash THEN <<DifferingContent(sub_path)>>
             ELSE <<>>
        ELSE IF ~(IsDir(fs, path_a) /\ IsDir(fs, path_b))
        THEN <<TypeMismatch(sub_path, get_entry_type(fs, path_a),
                            get_entry_type(fs, path_b))>>
        ELSE <<>>

RECURSIVE CompareEach(_, _, _, _)
CompareEach(fs, dir_a_path, dir_b_path, paths) ==
    IF paths = <<>> THEN <<>>
    ELSE compare_entry(fs, dir_a_path, dir_b_path, paths[1])
         \o CompareEach(fs, dir_a_path, dir_b_path, Tail(paths))

compare_directory_contents(fs, dir_a_content, dir_b_content, dir_a_path, dir_b_path, rev) ==
    CompareEach(fs, dir_a_path, dir_b_path,
                IterOrder(dir_a_content \cap dir_b_content, rev))

\* find_missing_entries with both groups computed from the same difference.
find_missing_entries_SameDifference(dir_a_content, dir_b_content) ==
    LET missing_in_dir_a == remove_subdirectories(dir_b_content \ dir_a_content)
        missing_in_dir_b == remove_subdirectories(dir_b_content \ dir_a_content)
    IN  [i \in 1..Len(missing_in_dir_a) |-> MissingInDirA(missing_in_dir_a[i])]
        \o [i \in 1..Len(missing_in_dir_b) |-> MissingInDirB(missing_in_dir_b[i])]

find_missing_entries(dir_a_content, dir_b_content) ==
    LET missing_in_dir_a == remove_subdirectories(dir_b_content \ dir_a_content)
        missing_in_dir_b == remove_subdirectories(dir_a_content \ dir_b_content)
    IN  [i \in 1..Len(missing_in_dir_a) |-> MissingInDirA(missing_in_dir_a[i])]
        \o [i \in 1..Len(missing_in_dir_b) |-> MissingInDirB(missing_in_dir_b[i])]

\* compare without its final sort: the findings as the steps produced them.
compare_Unsorted(fs, path_a, path_b, rev) ==
    LET a == get_directory_content_recursively(fs, path_a, rev)
        b == get_directory_content_recursively(fs, path_b, rev)
    IN  a.errors
        \o b.errors
        \o find_missing_entries(a.filenames, b.filenames)
        \o compare_directory_contents(fs, a.filenames, b.filenames,
                                      path_a, path_b, rev)

compare(fs, path_a, path_b, rev) ==
    LET a == get_directory_content_recursively(fs, path_a, rev)
        b == get_directory_content_recursively(fs, path_b, rev)
    IN  SortFindings(
            a.errors
            \o b.errors
            \o find_missing_entries(a.filenames, b.filenames)
            \o compare_directory_contents(fs, a.filenames, b.filenames,
                                          path_a, path_b, rev))

(***************************************************************************)
(* UsageTree: enum Entry and its aggregates.  An Option is a sequence of   *)
(* at most one element: <<>> is None, <<x>> is Some(x).                    *)
(***************************************************************************)
FileEntry(path, size) == [type |-> "File", path |-> path, size |-> size]

DirEntry(path, size, number_of_files, content) ==
    [type |-> "Dir", path |-> path, size |-> size,
     number_of_files |-> number_of_files, content |-> content]

\* ErrorEntry: size and content are None wherever one is built.
ErrorEntry(path, reason) == [type |-> "Error", path |-> path, reason |-> reason]

\* Entry::size
EntrySize(e) ==
    CASE e.type = "File" -> e.size
      [] e.type = "Dir" -> e.size
      [] e.type = "Error" -> 0

\* Entry::number_of_files
EntryNumberOfFiles(e) ==
    CASE e.type = "File" -> 1
      [] e.type = "Error" -> 1
      [] e.type = "Dir" -> e.number_of_files

RECURSIVE SumOver(_, _)
SumOver(Op(_), entries) ==
    IF entries = <<>> THEN 0 ELSE Op(entries[1]) + SumOver(Op, Tail(entries))

IsFileEntry(e) == e.type = "File"

CountFiles(entries) ==
    Cardinality({ i \in 1..Len(entries) : IsFileEntry(entries[i]) })

\* The directory analyze_directory_recursive builds from the entries it found,
\* counting only the File entries.
DirOfEntries_FilesOnly(path_str, entries) ==
    DirEntry(path_str, SumOver(EntrySize, entries), CountFiles(entries), entries)

\* The directory analyze_directory_recursive builds from the entries it found.
DirOfEntries(path_str, entries) ==
    DirEntry(path_str, SumOver(EntrySize, entries),
             SumOver(EntryNumberOfFiles, entries), entries)

\* fs_entry.rs: DirEntry::new
DirEntry_new(path, entries) ==
    DirEntry(path, SumOver(EntrySize, entries),
             SumOver(EntryNumberOfFiles, entries), entries)

\* clone_flat keeping the content only while more than one level is left.
RECURSIVE clone_flat_OneLevelLess(_, _)
clone_flat_OneLevelLess(d, levels_to_keep) ==
    DirEntry(d.path, d.size, d.number_of_files,
             IF levels_to_keep > 1
             THEN [i \in 1..Len(d.content) |->
                      IF d.content[i].type = "Dir"
                      THEN clone_flat_OneLevelLess(d.content[i], levels_to_keep - 1)
                      ELSE d.content[i]]
             ELSE <<>>)

\* clone_flat handing the same number of levels down to the directories.
RECURSIVE clone_flat_SameLevels(_, _)
clone_flat_SameLevels(d, levels_to_keep) ==
    DirEntry(d.path, d.size, d.number_of_files,
             IF levels_to_keep > 0
             THEN [i \in 1..Len(d.content) |->
                      IF d.content[i].type = "Dir"
                      THEN clone_flat_SameLevels(d.content[i], levels_to_keep)
                      ELSE d.content[i]]
             ELSE <<>>)

\* DirEntry::clone_flat
RECURSIVE clone_flat(_, _)
clone_flat(d, levels_to_keep) ==
    DirEntry(d.path, d.size, d.number_of_files,
             IF levels_to_keep > 0
             THEN [i \in 1..Len(d.content) |->
                      IF d.content[i].type = "Dir"
                      THEN clone_flat(d.content[i], levels_to_keep - 1)
                      ELSE d.content[i]]
             ELSE <<>>)

\* DirEntry::get_entry_by_path: the loop over self.content from index i on.
RECURSIVE GetEntryFrom(_, _, _)
GetEntryFrom(d, i, path) ==
    IF i > Len(d.content) THEN <<>>
    ELSE LET entry == d.content[i]
         IN  IF entry.type # "Dir" THEN GetEntryFrom(d, i + 1, path)
             ELSE IF entry.path = path THEN <<entry>>
             ELSE IF StartsWith(path, entry.path) THEN GetEntryFrom(entry, 1, path)
             ELSE GetEntryFrom(d, i + 1, path)

get_entry_by_path(d, path) == GetEntryFrom(d, 1, path)

\* load_nested_directory, given the content of the slot
load_nested_directory(slot, path) ==
    IF slot # <<>> /\ slot[1].type = "Dir"
    THEN LET hit == get_entry_by_path(slot[1], path)
         IN  IF hit = <<>> THEN <<>> ELSE <<clone_flat(hit[1], 2)>>
    ELSE <<>>

(***************************************************************************)
(* The disk the analyzer walks.                                            *)
(*   /r         ab/  abc/  x          x: its metadata cannot be read       *)
(*   /r/ab      c/   b                b: a file of 2 bytes                 *)
(*   /r/ab/c    a    (error)  b       a: a file of 1 byte; the second      *)
(*                                    entry fails to be read; b is neither *)
(*                                    a file nor a directory               *)
(*   /r/abc     a                     a: a file of 4 bytes                 *)
(* /x does not exist.                                                      *)
(***************************************************************************)
P_r == <<"/", "r">>
P_r_ab == P_r \o <<"/", "a", "b">>
P_r_ab_b == P_r_ab \o <<"/", "b">>
P_r_ab_c == P_r_ab \o <<"/", "c">>
P_r_ab_c_a == P_r_ab_c \o <<"/", "a">>
P_r_ab_c_b == P_r_ab_c \o <<"/", "b">>
P_r_abc == P_r \o <<"/", "a", "b", "c">>
P_r_abc_a == P_r_abc \o <<"/", "a">>
P_r_x == P_r \o <<"/", "x">>
P_x == <<"/", "x">>

\* An item of a directory listing: Ok(entry) with its path, or Err.
DirItem(path) == [ok |-> TRUE, path |-> path]
ListingError == [ok |-> FALSE, path |-> <<>>]

DiskDir(children) == [kind |-> "Dir", size |-> 0, children |-> children]
DiskFile(size) == [kind |-> "File", size |-> size, children |-> <<>>]
DiskOther(kind) == [kind |-> kind, size |-> 0, children |-> <<>>]

DiskPaths ==
    { P_r, P_r_ab, P_r_ab_b, P_r_ab_c, P_r_ab_c_a, P_r_ab_c_b, P_r_abc,
      P_r_abc_a, P_r_x }

Disk ==
    [p \in DiskPaths |->
        CASE p = P_r -> DiskDir(<<DirItem(P_r_ab), DirItem(P_r_abc), DirItem(P_r_x)>>)
          [] p = P_r_ab -> DiskDir(<<DirItem(P_r_ab_c), DirItem(P_r_ab_b)>>)
          [] p = P_r_ab_b -> DiskFile(2)
          [] p = P_r_ab_c ->
                DiskDir(<<DirItem(P_r_ab_c_a), ListingError, DirItem(P_r_ab_c_b)>>)
          [] p = P_r_ab_c_a -> DiskFile(1)
          [] p = P_r_ab_c_b -> DiskOther("Other")
          [] p = P_r_abc -> DiskDir(<<DirItem(P_r_abc_a)>>)
          [] p = P_r_abc_a -> DiskFile(4)
          [] p = P_r_x -> DiskOther("NoMetadata")]

\* The paths analyze_disk_usage is called with, and those asked of
\* load_nested_directory.
AnalyzeRoots == { P_r, P_r_ab, P_x }
LookupPaths == { P_r, P_r_ab, P_r_abc, P_r_ab_c }

\* fs::read_dir: Ok(listing) or Err(reason)
read_dir(path) ==
    IF path \notin DiskPaths
    THEN [ok |-> FALSE, listing |-> <<>>,
          reason |-> "No such file or directory (os error 2)"]
    ELSE IF Disk[path].kind # "Dir"
    THEN [ok |-> FALSE, listing |-> <<>>,
          reason |-> "Not a directory (os error 20)"]
    ELSE [ok |-> TRUE, listing |-> Disk[path].children, reason |-> ""]

(***************************************************************************)
(* Debounce.                                                               *)
(***************************************************************************)
\* Duration::from_millis(100)
Delay == 100

\* maybe_run letting the callback run once the delay itself has elapsed.
DebounceRuns_AtLeastDelay(last, t) ==
    IF last # <<>> THEN t - last[1] >= Delay ELSE TRUE

\* Debounce::maybe_run: whether the callback runs, given last_run and the clock.
DebounceRuns(last, t) ==
    IF last # <<>> THEN t - last[1] > Delay ELSE TRUE

(***************************************************************************)
(* DiskUsageAnalyzer as a state machine.  An invocation of                 *)
(* analyze_disk_usage runs on a worker; its recursion is a stack of        *)
(* frames, one per directory being analysed, and it advances one access to *)
(* shared state (the flag, the clock, the disk, the slot) at a time.       *)
(***************************************************************************)
Workers == { "w1", "w2" }

ProgressPayload(path, n) == [path |-> path, number_of_files_found |-> n]

\* A frame of analyze_directory_recursive: the directory, where the call
\* stands, what is left of the listing and the entries found so far.
Frame(path) == [path |-> path, stage |-> "check", todo |-> <<>>, entries |-> <<>>]

Top(p) == stack[p][Len(stack[p])]

WithTop(p, f) == [stack EXCEPT ![p] = [@ EXCEPT ![Len(@)] = f]]

InFlight(p) == pc[p] \in {"walk", "final", "store"}

AnalyzerIdle ==
    /\ should_abort = FALSE
    /\ saved_result = <<>>
    /\ now = 0
    /\ pc = [p \in Workers |-> "idle"]
    /\ root = [p \in Workers |-> <<>>]
    /\ stack = [p \in Workers |-> <<>>]
    /\ found = [p \in Workers |-> 0]
    /\ last_run = [p \in Workers |-> <<>>]
    /\ walked = [p \in Workers |-> <<>>]
    /\ ret = [p \in Workers |-> <<>>]
    /\ emitted = <<>>
    /\ loaded = <<>>
    /\ offered = [p \in Workers |-> <<>>]
    /\ listed = [p \in Workers |-> <<>>]
    /\ flag_at_invoke = [p \in Workers |-> FALSE]
    /\ abort_at = [p \in Workers |-> "none"]
    /\ last_ok = <<>>
    /\ load_pc = "idle"
    /\ load_req = <<>>
    /\ abort_before = [p \in Workers |-> FALSE]

\* analyze_disk_usage beginning without clearing the flag.
AnalyzeStart_KeepFlag(p, path) ==
    /\ ~InFlight(p)
    /\ should_abort' = should_abort
    /\ pc' = [pc EXCEPT ![p] = "walk"]
    /\ root' = [root EXCEPT ![p] = path]
    /\ stack' = [stack EXCEPT ![p] = <<Frame(path)>>]
    /\ found' = [found EXCEPT ![p] = 0]
    /\ last_run' = [last_run EXCEPT ![p] = <<>>]
    /\ walked' = [walked EXCEPT ![p] = <<>>]
    /\ ret' = [ret EXCEPT ![p] = <<>>]
    /\ offered' = [offered EXCEPT ![p] = <<>>]
    /\ listed' = [listed EXCEPT ![p] = <<>>]
    /\ flag_at_invoke' = [flag_at_invoke EXCEPT ![p] = should_abort]
    /\ abort_at' = [abort_at EXCEPT ![p] = "none"]
    /\ abort_before' = [abort_before EXCEPT ![p] =
                            should_abort /\ \A q \in Workers : abort_at[q] = "none"]
    /\ UNCHANGED <<saved_result, now, emitted, loaded, last_ok,
                   cmpVars, loadVars>>

\* analyze_disk_usage, up to the call of analyze_directory_recursive: the flag
\* is cleared, the Debounce and the Context are made.
AnalyzeStart(p, path) ==
    /\ ~InFlight(p)
    /\ should_abort' = FALSE
    /\ pc' = [pc EXCEPT ![p] = "walk"]
    /\ root' = [root EXCEPT ![p] = path]
    /\ stack' = [stack EXCEPT ![p] = <<Frame(path)>>]
    /\ found' = [found EXCEPT ![p] = 0]
    /\ last_run' = [last_run EXCEPT ![p] = <<>>]
    /\ walked' = [walked EXCEPT ![p] = <<>>]
    /\ ret' = [ret EXCEPT ![p] = <<>>]
    /\ offered' = [offered EXCEPT ![p] = <<>>]
    /\ listed' = [listed EXCEPT ![p] = <<>>]
    /\ flag_at_invoke' = [flag_at_invoke EXCEPT ![p] = should_abort]
    /\ abort_at' = [abort_at EXCEPT ![p] = "none"]
    /\ abort_before' = [abort_before EXCEPT ![p] =
                            should_abort /\ \A q \in Workers : abort_at[q] = "none"]
    /\ UNCHANGED <<saved_result, now, emitted, loaded, last_ok,
                   cmpVars, loadVars>>

\* analyze_directory_recursive returns e: to the frame that called it, whose
\* loop pushes it, or to analyze_disk_usage.
ReturnEntry(p, e) ==
    IF Len(stack[p]) = 1
    THEN /\ stack' = [stack EXCEPT ![p] = <<>>]
         /\ walked' = [walked EXCEPT ![p] = <<e>>]
         /\ pc' = [pc EXCEPT ![p] = "final"]
    ELSE /\ stack' = [stack EXCEPT ![p] =
                        LET n == Len(@)
                        IN  [SubSeq(@, 1, n - 1) EXCEPT
                                ![n - 1].entries = Append(@, e)]]
         /\ UNCHANGED <<walked, pc>>

\* The flag is loaded without being looked at, and the root is not checked.
CheckAbort_NotAtRoot(p) ==
    /\ pc[p] = "walk"
    /\ Top(p).stage = "check"
    /\ IF should_abort /\ Len(stack[p]) > 1
       THEN ReturnEntry(p, ErrorEntry(<<Top(p).path>>, "Aborted"))
       ELSE /\ stack' = WithTop(p, [Top(p) EXCEPT !.stage = "progress"])
            /\ UNCHANGED <<walked, pc>>
    /\ UNCHANGED <<should_abort, saved_result, now, root, found, last_run, ret,
                   emitted, loaded, offered, listed, flag_at_invoke, abort_at,
                   last_ok, cmpVars, loadVars, abortHist>>

\* The flag is looked at for the root only, not at every directory boundary.
CheckAbort_RootOnly(p) ==
    /\ pc[p] = "walk"
    /\ Top(p).stage = "check"
    /\ IF should_abort /\ Len(stack[p]) = 1
       THEN ReturnEntry(p, ErrorEntry(<<Top(p).path>>, "Aborted"))
       ELSE /\ stack' = WithTop(p, [Top(p) EXCEPT !.stage = "progress"])
            /\ UNCHANGED <<walked, pc>>
    /\ UNCHANGED <<should_abort, saved_result, now, root, found, last_run, ret,
                   emitted, loaded, offered, listed, flag_at_invoke, abort_at,
                   last_ok, cmpVars, loadVars, abortHist>>

\* analyze_directory_recursive: the flag is loaded at the directory boundary.
CheckAbort(p) ==
    /\ pc[p] = "walk"
    /\ Top(p).stage = "check"
    /\ IF should_abort
       THEN ReturnEntry(p, ErrorEntry(<<Top(p).path>>, "Aborted"))
       ELSE /\ stack' = WithTop(p, [Top(p) EXCEPT !.stage = "progress"])
            /\ UNCHANGED <<walked, pc>>
    /\ UNCHANGED <<should_abort, saved_result, now, root, found, last_run, ret,
                   emitted, loaded, offered, listed, flag_at_invoke, abort_at,
                   last_ok, cmpVars, loadVars, abortHist>>

\* analyze_directory_recursive: the progress payload is offered to the Debounce.
ReportProgress(p) ==
    /\ pc[p] = "walk"
    /\ Top(p).stage = "progress"
    /\ LET payload == ProgressPayload(Top(p).path, found[p])
       IN  /\ offered' = [offered EXCEPT ![p] =
                             Append(@, [payload |-> payload, at |-> now,
                                        ran |-> DebounceRuns(last_run[p], now)])]
           /\ IF DebounceRuns(last_run[p], now)
              THEN /\ last_run' = [last_run EXCEPT ![p] = <<now>>]
                   /\ emitted' = <<payload>>
              ELSE UNCHANGED <<last_run, emitted>>
    /\ stack' = WithTop(p, [Top(p) EXCEPT !.stage = "read_dir"])
    /\ UNCHANGED <<should_abort, saved_result, now, pc, root, found, walked, ret,
                   loaded, listed, flag_at_invoke, abort_at, last_ok,
                   cmpVars, loadVars, abortHist>>

\* analyze_directory_recursive: the directory is opened for listing.
ReadDir(p) ==
    /\ pc[p] = "walk"
    /\ Top(p).stage = "read_dir"
    /\ listed' = [listed EXCEPT ![p] = Append(@, Top(p).path)]
    /\ LET rd == read_dir(Top(p).path)
       IN  IF ~rd.ok
           THEN ReturnEntry(p, ErrorEntry(<<Top(p).path>>, rd.reason))
           ELSE /\ stack' = WithTop(p, [Top(p) EXCEPT !.stage = "loop",
                                                        !.todo = rd.listing])
                /\ UNCHANGED <<walked, pc>>
    /\ UNCHANGED <<should_abort, saved_result, now, root, found, last_run, ret,
                   emitted, loaded, offered, flag_at_invoke, abort_at, last_ok,
                   cmpVars, loadVars, abortHist>>

\* analyse_entry with a loop that gives up the listing at the first item it
\* cannot read.
AnalyseEntry_StopAtError(p) ==
    /\ pc[p] = "walk"
    /\ Top(p).stage = "loop"
    /\ Top(p).todo # <<>>
    /\ LET item == Head(Top(p).todo)
           rest == [Top(p) EXCEPT !.todo = Tail(@)]
           cut == [Top(p) EXCEPT !.todo = <<>>]
       IN  stack' =
              IF ~item.ok
              THEN WithTop(p, [cut EXCEPT !.entries =
                         Append(@, ErrorEntry(<<>>, "Input/output error (os error 5)"))])
              ELSE IF Disk[item.path].kind = "NoMetadata"
              THEN WithTop(p, [cut EXCEPT !.entries =
                         Append(@, ErrorEntry(<<item.path>>,
                                              "Permission denied (os error 13)"))])
              ELSE IF Disk[item.path].kind = "File"
              THEN WithTop(p, [rest EXCEPT !.entries =
                         Append(@, FileEntry(item.path, Disk[item.path].size))])
              ELSE [stack EXCEPT ![p] =
                       Append(SubSeq(@, 1, Len(@) - 1) \o <<rest>>, Frame(item.path))]
    /\ UNCHANGED <<should_abort, saved_result, now, pc, root, found, last_run,
                   walked, ret, emitted, loaded, offered, listed, flag_at_invoke,
                   abort_at, last_ok, cmpVars, loadVars, abortHist>>

\* analyse_entry on the next item of the listing: an Error, a File, or the
\* call of analyze_directory_recursive for it.
AnalyseEntry(p) ==
    /\ pc[p] = "walk"
    /\ Top(p).stage = "loop"
    /\ Top(p).todo # <<>>
    /\ LET item == Head(Top(p).todo)
           rest == [Top(p) EXCEPT !.todo = Tail(@)]
           push(e) == WithTop(p, [rest EXCEPT !.entries = Append(@, e)])
       IN  stack' =
              IF ~item.ok
              THEN push(ErrorEntry(<<>>, "Input/output error (os error 5)"))
              ELSE IF Disk[item.path].kind = "NoMetadata"
              THEN push(ErrorEntry(<<item.path>>, "Permission denied (os error 13)"))
              ELSE IF Disk[item.path].kind = "File"
              THEN push(FileEntry(item.path, Disk[item.path].size))
              ELSE [stack EXCEPT ![p] =
                       Append(SubSeq(@, 1, Len(@) - 1) \o <<rest>>, Frame(item.path))]
    /\ UNCHANGED <<should_abort, saved_result, now, pc, root, found, last_run,
                   walked, ret, emitted, loaded, offered, listed, flag_at_invoke,
                   abort_at, last_ok, cmpVars, loadVars, abortHist>>

\* analyze_directory_recursive: the listing is exhausted; the aggregates are
\* computed, the files are counted and the Dir entry is returned.
FinishDir(p) ==
    /\ pc[p] = "walk"
    /\ Top(p).stage = "loop"
    /\ Top(p).todo = <<>>
    /\ found' = [found EXCEPT ![p] = @ + CountFiles(Top(p).entries)]
    /\ ReturnEntry(p, DirOfEntries(Top(p).path, Top(p).entries))
    /\ UNCHANGED <<should_abort, saved_result, now, root, last_run, ret, emitted,
                   loaded, offered, listed, flag_at_invoke, abort_at, last_ok,
                   cmpVars, loadVars, abortHist>>

\* The final check that returns "Aborted" only when the traversal was cut
\* short at the root, without loading the flag.
FinalCheck_NoFlagLoad(p) ==
    /\ pc[p] = "final"
    /\ IF walked[p][1].type = "Error" /\ walked[p][1].reason = "Aborted"
       THEN /\ ret' = [ret EXCEPT ![p] = <<ErrorEntry(<<root[p]>>, "Aborted")>>]
            /\ pc' = [pc EXCEPT ![p] = "done"]
       ELSE /\ pc' = [pc EXCEPT ![p] =
                        IF walked[p][1].type = "Dir" THEN "store" ELSE "panicked"]
            /\ UNCHANGED ret
    /\ UNCHANGED <<should_abort, saved_result, now, root, stack, found, last_run,
                   walked, emitted, loaded, offered, listed, flag_at_invoke,
                   abort_at, last_ok, cmpVars, loadVars, abortHist>>

\* analyze_disk_usage after the traversal: the flag is loaded; "Aborted" is
\* returned if it is set, and a result that is no Dir panics.
FinalCheck(p) ==
    /\ pc[p] = "final"
    /\ IF should_abort
       THEN /\ ret' = [ret EXCEPT ![p] = <<ErrorEntry(<<root[p]>>, "Aborted")>>]
            /\ pc' = [pc EXCEPT ![p] = "done"]
       ELSE /\ pc' = [pc EXCEPT ![p] =
                        IF walked[p][1].type = "Dir" THEN "store" ELSE "panicked"]
            /\ UNCHANGED ret
    /\ UNCHANGED <<should_abort, saved_result, now, root, stack, found, last_run,
                   walked, emitted, loaded, offered, listed, flag_at_invoke,
                   abort_at, last_ok, cmpVars, loadVars, abortHist>>

\* The slot receives the flattened copy.
StoreResult_Flat(p) ==
    /\ pc[p] = "store"
    /\ load_pc = "idle"
    /\ saved_result' = <<clone_flat(walked[p][1], 2)>>
    /\ ret' = [ret EXCEPT ![p] = <<clone_flat(walked[p][1], 2)>>]
    /\ pc' = [pc EXCEPT ![p] = "done"]
    /\ last_ok' = walked[p]
    /\ UNCHANGED <<should_abort, now, root, stack, found, last_run, walked,
                   emitted, loaded, offered, listed, flag_at_invoke, abort_at,
                   cmpVars, loadVars, abortHist>>

\* analyze_disk_usage filling the slot without taking its lock.
StoreResult_NoLock(p) ==
    /\ pc[p] = "store"
    /\ saved_result' = walked[p]
    /\ ret' = [ret EXCEPT ![p] = <<clone_flat(walked[p][1], 2)>>]
    /\ pc' = [pc EXCEPT ![p] = "done"]
    /\ last_ok' = walked[p]
    /\ UNCHANGED <<should_abort, now, root, stack, found, last_run, walked,
                   emitted, loaded, offered, listed, flag_at_invoke, abort_at,
                   cmpVars, loadVars, abortHist>>

\* analyze_disk_usage: the full tree goes into the slot under its lock and the
\* copy flattened to two levels is returned.
StoreResult(p) ==
    /\ pc[p] = "store"
    /\ load_pc = "idle"
    /\ saved_result' = walked[p]
    /\ ret' = [ret EXCEPT ![p] = <<clone_flat(walked[p][1], 2)>>]
    /\ pc' = [pc EXCEPT ![p] = "done"]
    /\ last_ok' = walked[p]
    /\ UNCHANGED <<should_abort, now, root, stack, found, last_run, walked,
                   emitted, loaded, offered, listed, flag_at_invoke, abort_at,
                   cmpVars, loadVars, abortHist>>

\* The command abort.
Abort ==
    /\ should_abort' = TRUE
    /\ abort_at' =
          [p \in Workers |->
              IF abort_at[p] # "none" \/ ~InFlight(p)
              THEN abort_at[p]
              ELSE IF pc[p] = "walk" /\ Len(stack[p]) = 1 /\ Top(p).stage = "check"
              THEN "before_root_check"
              ELSE IF pc[p] = "store" THEN "after_final_check"
              ELSE "later"]
    /\ UNCHANGED <<saved_result, now, pc, root, stack, found, last_run, walked,
                   ret, emitted, loaded, offered, listed, flag_at_invoke, last_ok,
                   cmpVars, loadVars, abortHist>>

\* The command load_nested_directory: lookup and flattening under the lock.
LoadNestedDirectory(path) ==
    /\ load_pc = "idle"
    /\ loaded' = <<[path |-> path, out |-> load_nested_directory(saved_result, path)]>>
    /\ UNCHANGED <<should_abort, saved_result, now, pc, root, stack, found,
                   last_run, walked, ret, emitted, offered, listed,
                   flag_at_invoke, abort_at, last_ok,
                   cmpVars, loadVars, abortHist>>

\* load_nested_directory, first step: the lock of the slot is taken; the guard
\* lives until the function returns.
LoadLock(path) ==
    /\ load_pc = "idle"
    /\ load_pc' = "locked"
    /\ load_req' = <<[path |-> path, seen |-> saved_result]>>
    /\ UNCHANGED <<should_abort, saved_result, now, pc, root, stack, found,
                   last_run, walked, ret, emitted, loaded, offered, listed,
                   flag_at_invoke, abort_at, last_ok, cmpVars, abortHist>>

\* load_nested_directory, second step: the lookup and the flattening read the
\* slot through the guard, the answer is returned and the lock released.
LoadReturn ==
    /\ load_pc = "locked"
    /\ load_pc' = "idle"
    /\ loaded' = <<[path |-> load_req[1].path,
                    out |-> load_nested_directory(saved_result, load_req[1].path)]>>
    /\ UNCHANGED <<should_abort, saved_result, now, pc, root, stack, found,
                   last_run, walked, ret, emitted, offered, listed,
                   flag_at_invoke, abort_at, last_ok,
                   cmpVars, load_req, abortHist>>

\* Time passes, half the delay at a time.
TickStep == Delay \div 2

Tick ==
    /\ now < MaxTicks * TickStep
    /\ now' = now + TickStep
    /\ UNCHANGED <<should_abort, saved_result, pc, root, stack, found, last_run,
                   walked, ret, emitted, loaded, offered, listed, flag_at_invoke,
                   abort_at, last_ok, cmpVars, loadVars, abortHist>>

AnalyzeStep(p) ==
    \/ CheckAbort(p)
    \/ ReportProgress(p)
    \/ ReadDir(p)
    \/ AnalyseEntry(p)
    \/ FinishDir(p)
    \/ FinalCheck(p)
    \/ StoreResult(p)

\* The comparator's disk while the analyzer is looked at: two empty roots.
EmptyTree == [root |-> "ok", nodes |-> [p \in RelPaths |-> Absent]]

ComparatorIdle ==
    /\ cmpFs = [r \in Roots |-> EmptyTree]
    /\ cmpResult = [c \in Calls |-> <<>>]
    /\ copied = <<>>

InitAnalyze == AnalyzerIdle /\ ComparatorIdle

\* One analysis in flight at a time, on worker w1.
NextAnalyze ==
    \/ \E path \in AnalyzeRoots : AnalyzeStart("w1", path)
    \/ AnalyzeStep("w1")
    \/ Abort
    \/ \E path \in LookupPaths : LoadNestedDirectory(path)
    \/ Tick

SpecAnalyze == InitAnalyze /\ [][NextAnalyze]_vars

\* analyze_disk_usage and load_nested_directory, the latter taken step by
\* step so that a call of it overlaps an analysis.
NextLoadOverlap ==
    \/ \E path \in AnalyzeRoots : AnalyzeStart("w1", path)
    \/ AnalyzeStep("w1")
    \/ \E path \in LookupPaths : LoadLock(path)
    \/ LoadReturn

SpecLoadOverlap == InitAnalyze /\ [][NextLoadOverlap]_vars

\* Two invocations of analyze_disk_usage on their threads (the command is
\* tauri::command(async)), and abort: w1 analyses /r, w2 the directory /r/abc.
NextTwoAnalyses ==
    \/ AnalyzeStart("w1", P_r)
    \/ AnalyzeStart("w2", P_r_abc)
    \/ \E p \in Workers : AnalyzeStep(p)
    \/ Abort

SpecTwoAnalyses == InitAnalyze /\ [][NextTwoAnalyses]_vars

(***************************************************************************)
(* The comparator as a state machine: the two trees are on disk, and each  *)
(* call of compare leaves its answer.                                      *)
(***************************************************************************)
InitCompare ==
    /\ cmpFs \in [Roots -> Trees]
    /\ cmpResult = [c \in Calls |-> <<>>]
    /\ copied = <<>>
    /\ AnalyzerIdle

\* The command compare(path_a, path_b).
Compare(path_a, path_b) ==
    /\ \E rev \in BOOLEAN :
          cmpResult' = [cmpResult EXCEPT
                           ![<<path_a, path_b>>] = <<compare(cmpFs, path_a, path_b, rev)>>]
    /\ UNCHANGED <<cmpFs, copied, anVars>>

NextCompare == \E c \in Calls : Compare(c[1], c[2])

SpecCompare == InitCompare /\ [][NextCompare]_vars

(***************************************************************************)
(* The command copy: every sub path is handed to fs_extra::copy_items with *)
(* overwrite set, which copies the item INTO the target directory under    *)
(* the item's own file name (dir::copy pushes the last component onto the  *)
(* target, file::copy is given target.join(file_name)).                    *)
(*                                                                         *)
(* The model's disk does not record who may write where, nor which kind an *)
(* entry of another kind is; where the outcome hangs on that, the          *)
(* parameter lucky chooses it.                                             *)
(***************************************************************************)
\* Path::file_name of a relative path: what follows the last "/".
RECURSIVE FileName(_)
FileName(rel) ==
    IF \A i \in 1..Len(rel) : rel[i] # "/" THEN rel
    ELSE FileName(Tail(rel))

PutNode(fs, dir, rel, node) ==
    [fs EXCEPT ![dir] = [@ EXCEPT !.nodes = [@ EXCEPT ![rel] = node]]]

\* Whether an entry can be made or written at dest in the target: "yes",
\* "no", or "unseen" where the parent cannot be listed, so that the model
\* cannot tell what the write left.
CanPlace(fs, target_path, dest) ==
    LET parent == NodeAt(fs[target_path], ParentOf(dest))
    IN  IF dest \notin RelPaths \/ parent.kind # "Dir" THEN "no"
        ELSE IF ~parent.readable THEN "unseen"
        ELSE "yes"

\* fs_extra::file::copy(from, to) with overwrite: from must be a regular
\* file that can be opened; std::fs::copy then creates or truncates to.
file_copy(fs, source_path, from, target_path, dest, lucky) ==
    LET src == NodeAt(fs[source_path], from)
        place == CanPlace(fs, target_path, dest)
        old == NodeAt(fs[target_path], dest)
        written == PutNode(fs, target_path, dest,
                           [kind |-> "File", content |-> src.content,
                            readable |-> TRUE])
    IN  IF src.kind = "Absent"
        THEN [fs |-> fs, error |-> <<"does not exist">>]
        ELSE IF src.kind # "File"
        THEN [fs |-> fs, error |-> <<"is not a file">>]
        ELSE IF ~src.readable \/ place = "no" \/ old.kind = "Dir"
        THEN [fs |-> fs, error |-> <<"io error">>]
        ELSE IF place = "unseen" \/ old.kind = "Unknown"
        THEN [fs |-> fs, error |-> IF lucky THEN <<>> ELSE <<"io error">>]
        ELSE IF old.kind = "File" /\ ~old.readable /\ ~lucky
        THEN [fs |-> fs, error |-> <<"io error">>]
        ELSE [fs |-> written, error |-> <<>>]

\* The directory dir::copy makes at dest unless something exists there.
MakeDir(fs, target_path, dest, lucky) ==
    LET place == CanPlace(fs, target_path, dest)
        old == NodeAt(fs[target_path], dest)
    IN  IF old.kind \in {"Dir", "File"} THEN [fs |-> fs, error |-> <<>>]
        ELSE IF old.kind = "Unknown"
        THEN [fs |-> fs, error |-> IF lucky THEN <<>> ELSE <<"io error">>]
        ELSE IF place = "no" THEN [fs |-> fs, error |-> <<"io error">>]
        ELSE IF place = "unseen"
        THEN [fs |-> fs, error |-> IF lucky THEN <<>> ELSE <<"io error">>]
        ELSE [fs |-> PutNode(fs, target_path, dest,
                             [kind |-> "Dir", content |-> 0, readable |-> TRUE]),
              error |-> <<>>]

\* The entries below from, one after the other: first every directory is
\* made, then every file is copied; the first error ends the copy.
RECURSIVE CopyBelow(_, _, _, _, _, _, _)
CopyBelow(fs, source_path, todo, target_path, dest, files, lucky) ==
    IF todo = {} THEN [fs |-> fs, error |-> <<>>]
    ELSE LET q == CHOOSE q \in todo : \A o \in todo : q = o \/ StrLess(q, o)
             to == PathJoin(dest, FileName(q))
             step == IF files
                     THEN file_copy(fs, source_path, q, target_path, to, lucky)
                     ELSE MakeDir(fs, target_path, to, lucky)
         IN  IF step.error # <<>> THEN step
             ELSE CopyBelow(step.fs, source_path, todo \ {q}, target_path,
                            dest, files, lucky)

\* fs_extra::dir::copy(from, to): the content of from is read first
\* (get_dir_content2), then the directories are made below to/<name of from>
\* and the files copied into them.
dir_copy(fs, source_path, from, target_path, lucky) ==
    LET src == fs[source_path]
        dest == FileName(from)
        below == ChildrenOf(src, from)
        dirs == { q \in below : NodeAt(src, q).kind = "Dir" }
        unread == \/ ~NodeAt(src, from).readable
                  \/ \E q \in dirs : ~NodeAt(src, q).readable
                  \/ \E q \in below : NodeAt(src, q).kind = "Unknown" /\ ~lucky
        made == MakeDir(fs, target_path, dest, lucky)
        madeBelow == CopyBelow(made.fs, source_path, dirs, target_path, dest,
                               FALSE, lucky)
    IN  IF unread THEN [fs |-> fs, error |-> <<"io error">>]
        ELSE IF made.error # <<>> THEN made
        ELSE IF madeBelow.error # <<>> THEN madeBelow
        ELSE CopyBelow(madeBelow.fs, source_path, below \ dirs, target_path,
                       dest, TRUE, lucky)

\* fs_extra::copy_items(&[source_path.join(path)], target_path, options)
copy_items(fs, source_path, path, target_path, lucky) ==
    IF NodeAt(fs[source_path], path).kind = "Dir"
    THEN dir_copy(fs, source_path, path, target_path, lucky)
    ELSE file_copy(fs, source_path, path, target_path, FileName(path), lucky)

\* copy(source_path, target_path, sub_paths): the disk it leaves and the
\* ErrorInfo of every sub path whose copy failed, in the order of sub_paths.
RECURSIVE copy(_, _, _, _, _)
copy(fs, source_path, target_path, sub_paths, lucky) ==
    IF sub_paths = <<>> THEN [fs |-> fs, errors |-> <<>>]
    ELSE LET one == copy_items(fs, source_path, Head(sub_paths), target_path,
                               lucky)
             rest == copy(one.fs, source_path, target_path, Tail(sub_paths),
                          lucky)
         IN  [fs |-> rest.fs,
              errors |-> (IF one.error = <<>> THEN <<>>
                          ELSE <<[path |-> Head(sub_paths),
                                  message |-> one.error[1]]>>)
                         \o rest.errors]

\* The command copy(source_path, target_path, sub_paths). What compare had
\* returned is kept with the call; a compare after the copy answers anew.
Copy(source_path, target_path, sub_paths) ==
    /\ copied = <<>>
    /\ \E lucky \in BOOLEAN :
          LET out == copy(cmpFs, source_path, target_path, sub_paths, lucky)
          IN  /\ cmpFs' = out.fs
              /\ copied' = <<[source_path |-> source_path,
                              target_path |-> target_path,
                              sub_paths |-> sub_paths,
                              errors |-> out.errors,
                              before |-> cmpResult]>>
    /\ cmpResult' = [c \in Calls |-> <<>>]
    /\ UNCHANGED anVars

\* compare(A, B), and copy of one path between the two roots, in either
\* direction.
NextCopy ==
    \/ Compare(<<"A">>, <<"B">>)
    \/ \E c \in Calls : \E p \in RelPaths : Copy(c[1], c[2], <<p>>)

SpecCopy == InitCompare /\ [][NextCopy]_vars

(***************************************************************************)
(* What the comparator's claims speak of, stated on the disk itself and    *)
(* not through the walk.                                                   *)
(***************************************************************************)
Range(seq) == { seq[i] : i \in 1..Len(seq) }

CountOf(seq, x) == Cardinality({ i \in 1..Len(seq) : seq[i] = x })

CompareDone(c) == cmpResult[c] # <<>>
CompareOut(c) == cmpResult[c][1]

\* The relative paths a tree holds, the root's "" included.
PresentIn(t) ==
    (IF t.root = "missing" THEN {} ELSE { <<>> })
    \cup { p \in RelPaths : t.nodes[p] # Absent }

\* p is a directory the tree lists q under: a prefix of q that ends where a
\* path segment of q ends.
IsAncestor(p, q) ==
    /\ p # q
    /\ \/ p = <<>>
       \/ StartsWith(q, p \o <<"/">>)

EverythingReadable(t) ==
    /\ t.root = "ok"
    /\ \A p \in RelPaths : t.nodes[p].readable

KindOf(n) ==
    CASE n.kind = "Dir" -> "Directory"
      [] n.kind = "File" -> "File"
      [] OTHER -> "Unknown"

\* C1: for roots A and B whose trees are identical and fully readable,
\* compare(A, B) returns the empty list.
C1_IdenticalTreesNoFindings ==
    \A c \in Calls :
        (/\ CompareDone(c)
         /\ cmpFs[c[1]] = cmpFs[c[2]]
         /\ EverythingReadable(cmpFs[c[1]]))
        => CompareOut(c) = <<>>

\* The paths compare(c) reports missing on one side: side "A" is MissingInDirA.
ReportedMissing(c, side) ==
    { f.path : f \in { g \in Range(CompareOut(c)) :
                          g.type = IF side = "A" THEN "MissingInDirA"
                                   ELSE "MissingInDirB" } }

\* The paths one root holds and the other lacks: those missing on side "A"
\* are the ones only path_b holds.
OnlyIn(c, side) ==
    IF side = "A"
    THEN PresentIn(cmpFs[c[2]]) \ PresentIn(cmpFs[c[1]])
    ELSE PresentIn(cmpFs[c[1]]) \ PresentIn(cmpFs[c[2]])

HolderOf(c, side) == IF side = "A" THEN cmpFs[c[2]] ELSE cmpFs[c[1]]

\* No path reported missing on a side lies below another one reported there.
NoReportedDescendant ==
    \A c \in Calls : CompareDone(c) =>
        \A side \in {"A", "B"} :
            \A p, q \in ReportedMissing(c, side) : ~IsAncestor(p, q)

\* C2: among the paths reported missing on a side none lies below another;
\* a directory that exists on one side only (its parent on both) is reported
\* exactly once, by its own path, and nothing below it is reported.
C2_MissingDirectoryReportedOnce ==
    /\ NoReportedDescendant
    /\ \A c \in Calls : CompareDone(c) =>
          \A side \in {"A", "B"} :
              \A d \in OnlyIn(c, side) :
                  (/\ NodeAt(HolderOf(c, side), d).kind = "Dir"
                   /\ ParentOf(d) \notin OnlyIn(c, side))
                  => /\ CountOf(CompareOut(c),
                                IF side = "A" THEN MissingInDirA(d)
                                ELSE MissingInDirB(d)) = 1
                     /\ \A q \in ReportedMissing(c, side) : ~IsAncestor(d, q)

\* C3: a path that only one root holds is reported missing on the other side,
\* or a real ancestor directory of it is; a name that merely starts with
\* another name is not swallowed.
C3_OnlyTrueAncestorsSwallow ==
    \A c \in Calls : CompareDone(c) =>
        \A side \in {"A", "B"} :
            \A p \in OnlyIn(c, side) :
                \/ p \in ReportedMissing(c, side)
                \/ \E a \in ReportedMissing(c, side) : IsAncestor(a, p)

Swapped(c) == <<c[2], c[1]>>

FindingsOfType(c, type) == { f \in Range(CompareOut(c)) : f.type = type }

\* C8: compare(B, A) mirrors compare(A, B): the two missing groups change
\* places, the DifferingContent paths are the same, and the TypeMismatch
\* findings are the same with type_in_dir_a and type_in_dir_b exchanged.
C8_SwappedRootsMirror ==
    \A c \in Calls :
        (CompareDone(c) /\ CompareDone(Swapped(c))) =>
            /\ ReportedMissing(c, "A") = ReportedMissing(Swapped(c), "B")
            /\ ReportedMissing(c, "B") = ReportedMissing(Swapped(c), "A")
            /\ FindingsOfType(c, "DifferingContent")
                   = FindingsOfType(Swapped(c), "DifferingContent")
            /\ FindingsOfType(c, "TypeMismatch")
                   = { TypeMismatch(f.path, f.type_in_dir_b, f.type_in_dir_a) :
                          f \in FindingsOfType(Swapped(c), "TypeMismatch") }

\* Both orders were compared, with a path missing on one side and an entry of
\* two different kinds.
C8_Witness ==
    \E c \in Calls :
        /\ CompareDone(c) /\ CompareDone(Swapped(c))
        /\ ReportedMissing(c, "A") # {}
        /\ \E f \in FindingsOfType(c, "TypeMismatch") :
              f.type_in_dir_a # f.type_in_dir_b

BothReadableFiles(c, p) ==
    /\ p \in PresentIn(cmpFs[c[1]]) \cap PresentIn(cmpFs[c[2]])
    /\ \A r \in {c[1], c[2]} :
          NodeAt(cmpFs[r], p).kind = "File" /\ NodeAt(cmpFs[r], p).readable

\* The findings of compare(c) about the entry at relative path p.
FindingsAbout(c, p) ==
    { f \in Range(CompareOut(c)) :
         f.path \in {p, PathJoin(c[1], p), PathJoin(c[2], p)} }

\* C9: for a path both roots hold as readable regular files, DifferingContent
\* is reported exactly when the bytes differ, and equal files produce no
\* finding for the path.
C9_DifferingContentIffBytesDiffer ==
    \A c \in Calls : CompareDone(c) =>
        \A p \in RelPaths : BothReadableFiles(c, p) =>
            LET differ == NodeAt(cmpFs[c[1]], p).content
                              # NodeAt(cmpFs[c[2]], p).content
            IN  /\ (DifferingContent(p) \in Range(CompareOut(c))) <=> differ
                /\ ~differ => FindingsAbout(c, p) = {}

C9_Witness ==
    \E c \in Calls : \E p \in RelPaths :
        /\ CompareDone(c)
        /\ BothReadableFiles(c, p)
        /\ NodeAt(cmpFs[c[1]], p).content # NodeAt(cmpFs[c[2]], p).content
        /\ CountOf(CompareOut(c), DifferingContent(p)) = 1

\* C10: for a path both roots hold: if exactly one side is a regular file, or
\* neither side is a directory and they are not both regular files, there is
\* exactly one TypeMismatch for the path, carrying side A's kind as
\* type_in_dir_a and side B's as type_in_dir_b; if both are directories there
\* is no finding with that path.
C10_TypeMismatchKinds ==
    \A c \in Calls : CompareDone(c) =>
        \A p \in PresentIn(cmpFs[c[1]]) \cap PresentIn(cmpFs[c[2]]) :
            LET ka == KindOf(NodeAt(cmpFs[c[1]], p))
                kb == KindOf(NodeAt(cmpFs[c[2]], p))
                about == { f \in FindingsOfType(c, "TypeMismatch") : f.path = p }
            IN  /\ (\/ (ka = "File") # (kb = "File")
                    \/ /\ ka # "Directory" /\ kb # "Directory"
                       /\ ~(ka = "File" /\ kb = "File"))
                   => /\ about = { TypeMismatch(p, ka, kb) }
                      /\ CountOf(CompareOut(c), TypeMismatch(p, ka, kb)) = 1
                /\ (ka = "Directory" /\ kb = "Directory")
                   => \A f \in Range(CompareOut(c)) : f.path # p

\* A file in A and a directory in B at the same path, reported as such.
C10_Witness ==
    \E c \in Calls : \E p \in RelPaths :
        /\ CompareDone(c)
        /\ NodeAt(cmpFs[c[1]], p).kind = "File"
        /\ NodeAt(cmpFs[c[2]], p).kind = "Dir"
        /\ TypeMismatch(p, "File", "Directory") \in Range(CompareOut(c))

(***************************************************************************)
(* What the analyzer's claims speak of.                                    *)
(***************************************************************************)
\* The sum of the sizes of the File entries an entry contains.
RECURSIVE TotalFileSize(_)
TotalFileSize(e) ==
    CASE e.type = "File" -> e.size
      [] e.type = "Error" -> 0
      [] e.type = "Dir" -> SumOver(TotalFileSize, e.content)

\* The number of File and Error entries an entry contains.
RECURSIVE LeafCount(_)
LeafCount(e) ==
    CASE e.type = "File" -> 1
      [] e.type = "Error" -> 1
      [] e.type = "Dir" -> SumOver(LeafCount, e.content)

\* The Dir nodes of an entry, at every level.
RECURSIVE DirNodes(_)
DirNodes(e) ==
    IF e.type # "Dir" THEN {}
    ELSE {e} \cup UNION { DirNodes(e.content[i]) : i \in 1..Len(e.content) }

AggregatesOk(d) ==
    /\ d.size = TotalFileSize(d)
    /\ d.number_of_files = LeafCount(d)

\* The entries analyze_directory_recursive has built: the traversal's result,
\* the entries waiting in the frames, and the tree in the slot.
BuiltEntries ==
    Range(saved_result)
    \cup UNION { Range(walked[p]) : p \in Workers }
    \cup UNION { UNION { Range(stack[p][i].entries) : i \in 1..Len(stack[p]) } :
                    p \in Workers }

\* C4: every Dir node, at every level, of every tree the traversal builds has
\* size = the sum of the sizes of the File entries it contains and
\* number_of_files = the number of File and Error entries it contains; so has
\* the node DirEntry::new makes of the same path and content.
C4_DirAggregates ==
    \A e \in BuiltEntries :
        \A d \in DirNodes(e) :
            /\ AggregatesOk(d)
            /\ AggregatesOk(DirEntry_new(d.path, d.content))

\* A finished traversal whose tree has a directory below the root that holds
\* a File and an Error entry.
C4_Witness ==
    \E p \in Workers :
        /\ walked[p] # <<>>
        /\ \E d \in DirNodes(walked[p][1]) :
              /\ d # walked[p][1]
              /\ \E i, j \in 1..Len(d.content) :
                    d.content[i].type = "File" /\ d.content[j].type = "Error"

Aborted(path) == ErrorEntry(<<path>>, "Aborted")

\* C5: an invocation during which abort was called (after it cleared the flag,
\* before its final check of the flag) returns nothing but the "Aborted" Error
\* entry of its root.
C5_AbortedRunReturnsAborted ==
    \A p \in Workers :
        (pc[p] = "done" /\ abort_at[p] \in {"before_root_check", "later"}) =>
            ret[p] = <<Aborted(root[p])>>

\* abort came after the root's boundary check, the traversal still returned a
\* Dir tree, and the invocation has returned.
C5_Witness ==
    \E p \in Workers :
        /\ pc[p] = "done"
        /\ abort_at[p] = "later"
        /\ walked[p][1].type = "Dir"

\* C6 as stated: an invocation that began with the flag set returns the
\* "Aborted" Error entry and lists no directory.
C6_FlagSetBeforeInvoke ==
    \A p \in Workers :
        (pc[p] = "done" /\ flag_at_invoke[p]) =>
            /\ ret[p] = <<Aborted(root[p])>>
            /\ listed[p] = <<>>

\* C6, amended: when abort is called after the invocation cleared the flag and
\* before the boundary check of its root, no directory is ever listed and the
\* invocation returns the "Aborted" Error entry.
C6_FlagSetAtRootCheck ==
    \A p \in Workers :
        abort_at[p] = "before_root_check" =>
            /\ listed[p] = <<>>
            /\ pc[p] \notin {"store", "panicked"}
            /\ pc[p] = "done" => ret[p] = <<Aborted(root[p])>>

C6_Witness ==
    \E p \in Workers :
        /\ pc[p] = "done"
        /\ abort_at[p] = "before_root_check"
        /\ flag_at_invoke[p]

\* The tree of the disk below a path, as a full listing gives it.
RECURSIVE ExpectedTree(_)
ExpectedTree(path) ==
    LET rd == read_dir(path)
        entry(item) ==
            IF ~item.ok THEN ErrorEntry(<<>>, "Input/output error (os error 5)")
            ELSE IF Disk[item.path].kind = "NoMetadata"
            THEN ErrorEntry(<<item.path>>, "Permission denied (os error 13)")
            ELSE IF Disk[item.path].kind = "File"
            THEN FileEntry(item.path, Disk[item.path].size)
            ELSE ExpectedTree(item.path)
        content == [i \in 1..Len(rd.listing) |-> entry(rd.listing[i])]
        shell == DirEntry(path, 0, 0, content)
    IN  IF ~rd.ok THEN ErrorEntry(<<path>>, rd.reason)
        ELSE DirEntry(path, TotalFileSize(shell), LeafCount(shell), content)

\* C7: the slot holds the tree of the last invocation that returned a result
\* other than "Aborted" (nothing before the first), and that tree is the full,
\* unflattened tree of the disk below its root.
C7_SlotHoldsLastSuccess ==
    /\ saved_result = last_ok
    /\ saved_result # <<>> => saved_result[1] = ExpectedTree(saved_result[1].path)

\* An aborted analysis of one root has returned while the slot still holds the
\* tree of another root, and load_nested_directory has served from it.
C7_Witness ==
    \E p \in Workers :
        /\ pc[p] = "done"
        /\ ret[p] = <<Aborted(root[p])>>
        /\ saved_result # <<>>
        /\ saved_result[1].path # root[p]
        /\ loaded # <<>>
        /\ loaded[1].out = load_nested_directory(saved_result, loaded[1].path)
        /\ loaded[1].out # <<>>

(***************************************************************************)
(* The comparator: order of the result, failures of hashing and listing.   *)
(***************************************************************************)
\* The variants in the order the result lists them.
VariantOrder ==
    <<"CouldNotReadDirectory", "CouldNotCalculateHash", "MissingInDirA",
      "MissingInDirB", "DifferingContent", "TypeMismatch">>

VariantIndex(f) == CHOOSE i \in 1..Len(VariantOrder) : VariantOrder[i] = f.type

Ascending(out) ==
    \A i, j \in 1..Len(out) :
        i < j =>
            /\ VariantIndex(out[i]) <= VariantIndex(out[j])
            /\ ~FindingLess(out[j], out[i])

\* C11: the list compare returns is in ascending order of the findings' total
\* order, variant first, and is the same list whichever order the walk and
\* the hash sets hand out their elements in.
C11_SortedAndOrderIndependent ==
    \A c \in Calls :
        CompareDone(c) =>
            /\ Ascending(CompareOut(c))
            /\ \A rev \in BOOLEAN : CompareOut(c) = compare(cmpFs, c[1], c[2], rev)

\* A result of several variants whose findings the steps produce in an order
\* that depends on the iteration order.
C11_Witness ==
    \E c \in Calls :
        /\ CompareDone(c)
        /\ Cardinality({ f.type : f \in Range(CompareOut(c)) }) >= 2
        /\ \E i, j \in 1..Len(CompareOut(c)) :
              /\ i < j
              /\ CompareOut(c)[i].type = CompareOut(c)[j].type
              /\ CompareOut(c)[i] # CompareOut(c)[j]

\* The relative paths for which compare(c) hashes: regular files on both
\* sides that both walks have reached.
HashedPairs(c) ==
    { p \in RelPaths :
        /\ cmpFs[c[1]].root = "ok" /\ cmpFs[c[2]].root = "ok"
        /\ NodeAt(cmpFs[c[1]], p).kind = "File"
        /\ NodeAt(cmpFs[c[2]], p).kind = "File"
        /\ \A q \in RelPaths :
              IsAncestor(q, p) =>
                  /\ NodeAt(cmpFs[c[1]], q).readable
                  /\ NodeAt(cmpFs[c[2]], q).readable }

HashFails(dir, p) == ~NodeAt(cmpFs[dir], p).readable

HashFinding(dir, p) ==
    CouldNotCalculateHash(PathJoin(dir, p), "Permission denied (os error 13)")

\* C12 as stated: for a path that is a regular file in both roots, every side
\* whose file cannot be hashed has its CouldNotCalculateHash finding in the
\* result, and the path has no DifferingContent finding.
C12_EveryFailedSideReported ==
    \A c \in Calls :
        CompareDone(c) =>
            \A p \in HashedPairs(c) :
                \A i \in 1..2 :
                    HashFails(c[i], p) =>
                        /\ HashFinding(c[i], p) \in Range(CompareOut(c))
                        /\ DifferingContent(p) \notin Range(CompareOut(c))

\* C12, amended: the file of dir a is hashed first and the file of dir b only
\* when that succeeded; the first hashing that fails has its
\* CouldNotCalculateHash finding in the result, once, the other side has none,
\* and the path has no DifferingContent finding.
C12_FirstFailedSideReported ==
    \A c \in Calls :
        CompareDone(c) =>
            \A p \in HashedPairs(c) :
                LET out == CompareOut(c)
                    first == IF HashFails(c[1], p) THEN 1 ELSE 2
                IN  (HashFails(c[1], p) \/ HashFails(c[2], p)) =>
                        /\ CountOf(out, HashFinding(c[first], p)) = 1
                        /\ HashFinding(c[3 - first], p) \notin Range(out)
                        /\ DifferingContent(p) \notin Range(out)

\* Both files of a pair cannot be hashed, and compare has reported the one of
\* dir a.
C12_Witness ==
    \E c \in Calls :
        /\ CompareDone(c)
        /\ \E p \in HashedPairs(c) :
              /\ HashFails(c[1], p) /\ HashFails(c[2], p)
              /\ HashFinding(c[1], p) \in Range(CompareOut(c))

\* C13: when the root cannot be opened (it does not exist, or it may not be
\* listed), get_directory_content_recursively returns the empty path set and
\* exactly one finding, a CouldNotReadDirectory whose path is the root.
C13_UnopenableRootEmptySet ==
    \A c \in Calls :
        CompareDone(c) =>
            \A i \in 1..2 : \A rev \in BOOLEAN :
                cmpFs[c[i]].root # "ok" =>
                    LET got == get_directory_content_recursively(cmpFs, c[i], rev)
                    IN  /\ got.filenames = {}
                        /\ Len(got.errors) = 1
                        /\ got.errors[1].type = "CouldNotReadDirectory"
                        /\ got.errors[1].path = c[i]

(***************************************************************************)
(* The analyzer: a root that cannot be listed.                             *)
(***************************************************************************)
\* The traversal of p is over and gave an Error entry for the root itself,
\* with no abort requested during the invocation.
RootListingFailed(p) ==
    /\ pc[p] \in {"store", "panicked", "done"}
    /\ abort_at[p] = "none"
    /\ walked[p] # <<>>
    /\ walked[p][1].type = "Error"

\* C14: when the root cannot be listed and no abort was requested,
\* analyze_disk_usage completes normally and returns a single Error entry
\* carrying the reason of the failure.
C14_UnlistableRootReturnsError ==
    \A p \in Workers :
        RootListingFailed(p) =>
            /\ pc[p] = "done"
            /\ ret[p] = <<ErrorEntry(<<root[p]>>, read_dir(root[p]).reason)>>

(***************************************************************************)
(* clone_flat and get_entry_by_path on the trees of the analyzer.          *)
(***************************************************************************)
\* The largest levels_to_keep the properties are checked with.
MaxKeep == 4

\* The Dir nodes the program holds: those of the trees the traversal built
\* and those of the flattened copies it has returned.
HeldDirs ==
    UNION { DirNodes(e) :
              e \in BuiltEntries
                    \cup UNION { Range(ret[p]) : p \in Workers }
                    \cup UNION { Range(loaded[i].out) : i \in 1..Len(loaded) } }

\* The depth of a tree: the number of levels below its root.
RECURSIVE Depth(_)
Depth(e) ==
    IF e.type # "Dir" \/ e.content = <<>> THEN 0
    ELSE LET below == { Depth(e.content[i]) : i \in 1..Len(e.content) }
         IN  1 + CHOOSE m \in below : \A n \in below : n <= m

\* C15: clone_flat(t, 0) has the path, size and number_of_files of t and no
\* content; clone_flat(t, N) equals t for every N that is at least the depth
\* of t.
C15_FlatZeroAndFlatDeep ==
    \A t \in HeldDirs :
        /\ clone_flat(t, 0) = DirEntry(t.path, t.size, t.number_of_files, <<>>)
        /\ \A N \in 0..MaxKeep : N >= Depth(t) => clone_flat(t, N) = t

\* The program holds a tree of three levels, which a smaller N changes, and a
\* directory without content.
C15_Witness ==
    /\ \E t \in HeldDirs :
          /\ Depth(t) = 3
          /\ clone_flat(t, Depth(t) - 1) # t
          /\ clone_flat(t, 0) # t
    /\ \E t \in HeldDirs : t.content = <<>>

\* The copy of t, a Dir node at distance j from the root of the copy, in which
\* the directories at distance limit or more have lost their content.
RECURSIVE CutAt(_, _, _)
CutAt(t, j, limit) ==
    DirEntry(t.path, t.size, t.number_of_files,
             IF j >= limit THEN <<>>
             ELSE [i \in 1..Len(t.content) |->
                      IF t.content[i].type = "Dir"
                      THEN CutAt(t.content[i], j + 1, limit)
                      ELSE t.content[i]])

\* C16 as stated: clone_flat(t, k) is the copy of t in which exactly the
\* directories deeper than k levels below the root have lost their content,
\* those at distance <= k keeping theirs.
C16_DeeperThanKEmptied ==
    \A t \in HeldDirs : \A k \in 0..MaxKeep : clone_flat(t, k) = CutAt(t, 0, k + 1)

\* C16, amended: clone_flat(t, k) is the copy of t in which exactly the
\* directories at distance k or more below the root (the root itself for
\* k = 0) have lost their content, those at distance < k keeping theirs; every
\* directory retained keeps its path, size and number_of_files.
C16_AtLeastKEmptied ==
    \A t \in HeldDirs : \A k \in 0..MaxKeep : clone_flat(t, k) = CutAt(t, 0, k)

\* analyze_disk_usage has returned the copy flattened to two levels of a tree
\* that has a directory with content at distance 2.
C16_Witness ==
    \E p \in Workers :
        /\ pc[p] = "done"
        /\ saved_result # <<>>
        /\ ret[p] = <<clone_flat(saved_result[1], 2)>>
        /\ ret[p] # saved_result
        /\ ret[p] # <<CutAt(saved_result[1], 0, 3)>>

(***************************************************************************)
(* Debounce, as analyze_disk_usage drives it.                              *)
(***************************************************************************)
\* The calls of maybe_run before call i of invocation p whose callback ran.
RanBefore(p, i) == { j \in 1..(i - 1) : offered[p][j].ran }

LastRanBefore(p, i) == CHOOSE j \in RanBefore(p, i) : \A k \in RanBefore(p, i) : k <= j

\* The time since the last call whose callback ran, at call i.
Elapsed(p, i) == offered[p][i].at - offered[p][LastRanBefore(p, i)].at

Ran(p) == { j \in 1..Len(offered[p]) : offered[p][j].ran }

\* What holds of skipped calls under either reading of the delay: last_run is
\* the time of the last call whose callback ran, and the event delivered last
\* is that call's payload, never the payload of a skipped call.
SkippedCallsDropped(p) ==
    Ran(p) # {} =>
        LET j == CHOOSE j \in Ran(p) : \A k \in Ran(p) : k <= j
        IN  /\ last_run[p] = <<offered[p][j].at>>
            /\ emitted = <<offered[p][j].payload>>

\* C18 as stated: the first call of maybe_run runs the callback; a later call
\* runs it if and only if at least the delay has elapsed since the last call
\* that ran it; a call that does not run it leaves last_run unchanged and its
\* payload is never delivered.
C18_RunsIffAtLeastDelay ==
    \A p \in Workers :
        /\ \A i \in 1..Len(offered[p]) :
              offered[p][i].ran <=> (RanBefore(p, i) = {} \/ Elapsed(p, i) >= Delay)
        /\ SkippedCallsDropped(p)

\* C18, amended: a later call runs the callback if and only if more than the
\* delay has elapsed since the last call that ran it; a call made when exactly
\* the delay has elapsed is skipped.
C18_RunsIffMoreThanDelay ==
    \A p \in Workers :
        /\ \A i \in 1..Len(offered[p]) :
              offered[p][i].ran <=> (RanBefore(p, i) = {} \/ Elapsed(p, i) > Delay)
        /\ SkippedCallsDropped(p)

\* One invocation has made a call that was skipped when exactly the delay had
\* elapsed and a later call that ran.
C18_Witness ==
    \E p \in Workers :
        \E i, j \in 1..Len(offered[p]) :
            /\ 1 < i /\ i < j
            /\ ~offered[p][i].ran /\ Elapsed(p, i) = Delay
            /\ offered[p][j].ran

(***************************************************************************)
(* abort with no analysis in flight.                                       *)
(***************************************************************************)
\* The invocation p began after an abort that found no analysis in flight,
\* and abort has not been called since.
BeganAfterIdleAbort(p) == abort_before[p] /\ abort_at[p] = "none"

\* C19: abort with no analysis in flight changes nothing: the slot still holds
\* the tree of the last successful analysis, and the analysis started next
\* lists every directory below its root, returns the tree it returns without
\* the abort and fills the slot.
C19_IdleAbortNoOp ==
    /\ (should_abort /\ \A q \in Workers : ~InFlight(q)) => saved_result = last_ok
    /\ \A p \in Workers :
          (BeganAfterIdleAbort(p) /\ pc[p] = "done") =>
              LET full == ExpectedTree(root[p])
              IN  /\ ret[p] = <<clone_flat(full, 2)>>
                  /\ saved_result = <<full>>
                  /\ { d.path : d \in DirNodes(full) } \subseteq Range(listed[p])

\* An analysis that began with the flag set by an idle abort has returned a
\* Dir tree.
C19_Witness ==
    \E p \in Workers :
        /\ BeganAfterIdleAbort(p)
        /\ flag_at_invoke[p]
        /\ pc[p] = "done"
        /\ ret[p][1].type = "Dir"

(***************************************************************************)
(* load_nested_directory overlapping an analysis.                          *)
(***************************************************************************)
\* C20: a load_nested_directory call that overlaps a completing analysis
\* answers from one tree: while it holds the lock the slot is not replaced,
\* its answer is the lookup and flattening of the slot as it was when the lock
\* was taken, and that slot is empty or the full tree of an analysis.
C20_LoadAnswersFromOneTree ==
    /\ load_pc = "locked" => saved_result = load_req[1].seen
    /\ (load_pc = "idle" /\ load_req # <<>>) =>
          /\ loaded[1].path = load_req[1].path
          /\ loaded[1].out = load_nested_directory(load_req[1].seen, load_req[1].path)
    /\ \A i \in 1..Len(load_req) :
          load_req[i].seen # <<>> =>
              load_req[i].seen[1] = ExpectedTree(load_req[i].seen[1].path)

\* load_nested_directory holds the lock on an earlier tree while an analysis
\* of another root is about to fill the slot, and the two trees give
\* different answers.
C20_Witness ==
    \E p \in Workers :
        /\ load_pc = "locked"
        /\ pc[p] = "store"
        /\ saved_result # <<>>
        /\ walked[p] # saved_result
        /\ load_nested_directory(saved_result, load_req[1].path)
              # load_nested_directory(walked[p], load_req[1].path)
        /\ load_nested_directory(saved_result, load_req[1].path) # <<>>

\* The directories strictly below the root of the tree a load call found in
\* the slot.
BelowRoot(slot) == DirNodes(slot[1]) \ {slot[1]}

\* C17: for every directory d strictly below the root of the cached tree,
\* load_nested_directory(d.path) returns the copy of d flattened to two
\* levels, also when the path of a sibling is a string prefix of d.path; it
\* returns none only when no directory below the root has that path.
C17_LoadFindsEveryDirectory ==
    (load_pc = "idle" /\ load_req # <<>> /\ load_req[1].seen # <<>>) =>
        LET matches == { d \in BelowRoot(load_req[1].seen) :
                           d.path = load_req[1].path }
        IN  /\ \A d \in matches : loaded[1].out = <<clone_flat(d, 2)>>
            /\ loaded[1].out = <<>> => matches = {}

(***************************************************************************)
(* copy followed by compare.                                               *)
(***************************************************************************)
AB == << <<"A">>, <<"B">> >>

\* The findings of a list that name the relative path p.
About(findings, p) ==
    { f \in Range(findings) :
         f.path \in {p, PathJoin(<<"A">>, p), PathJoin(<<"B">>, p)} }

\* The call of copy k was given the one path p, which compare(A, B) had
\* reported as missing on the side copied to or as DifferingContent, and it
\* returned no error.
CopiedReported(k, p) ==
    /\ k.sub_paths = <<p>>
    /\ k.errors = <<>>
    /\ k.before[AB] # <<>>
    /\ \/ DifferingContent(p) \in Range(k.before[AB][1])
       \/ (IF k.target_path = <<"B">> THEN MissingInDirB(p)
           ELSE MissingInDirA(p)) \in Range(k.before[AB][1])

\* p itself or a path below it
CopiedWith(p, q) == q = p \/ IsAncestor(p, q)

\* C21: after copy(source, destination, [p]) of a path p that compare(A, B)
\* had reported as missing in the destination or as DifferingContent returned
\* no error, p exists in the destination; a following compare(A, B) reports
\* nothing for p, and what it reports for the paths not copied is what it
\* reported before. (Stated for trees whose every entry can be read.)
C21_CopyResolvesFinding ==
    \A p \in RelPaths :
        (/\ copied # <<>>
         /\ CopiedReported(copied[1], p)
         /\ \A r \in Roots : EverythingReadable(cmpFs[r]))
        => /\ NodeAt(cmpFs[copied[1].target_path], p) # Absent
           /\ CompareDone(AB) =>
                 /\ About(CompareOut(AB), p) = {}
                 /\ \A q \in RelPaths : ~CopiedWith(p, q) =>
                        About(CompareOut(AB), q) = About(copied[1].before[AB][1], q)

\* The same for a top-level path whose name no other missing name starts with.
C21_TopLevelCopyResolves ==
    \A p \in RelPaths :
        (/\ copied # <<>>
         /\ CopiedReported(copied[1], p)
         /\ ParentOf(p) = <<>>
         /\ \A r \in Roots : EverythingReadable(cmpFs[r]))
        => /\ NodeAt(cmpFs[copied[1].target_path], p) # Absent
           /\ CompareDone(AB) => About(CompareOut(AB), p) = {}

(***************************************************************************)
(* The flag and the directory boundary.                                    *)
(***************************************************************************)
\* The directories of the calls of analyze_directory_recursive in flight
\* that stand at one of the given stages.
DirsAtStage(p, stages) ==
    { stack[p][i].path : i \in { j \in 1..Len(stack[p]) : stack[p][j].stage \in stages } }

\* The directories whose check of the flag has passed and which have not been
\* offered as progress yet, or not been opened yet.
ToOffer(p) == DirsAtStage(p, {"progress"})
ToOpen(p) == DirsAtStage(p, {"progress", "read_dir"})

\* C22 as stated: while the flag is set, no progress notification is offered
\* and no directory is opened for listing.
C22_NoOfferNoListingOnceSet ==
    [][ (should_abort /\ should_abort') =>
            \A p \in Workers : offered'[p] = offered[p] /\ listed'[p] = listed[p] ]_vars

\* What a step of invocation p may do while the flag is set and stays set.
StepUnderFlag(p) ==
    /\ Cardinality(ToOpen(p)) <= 1
    /\ ToOffer(p)' \subseteq ToOffer(p)
    /\ ToOpen(p)' \subseteq ToOpen(p)
    /\ offered'[p] # offered[p] =>
          LET path == offered'[p][Len(offered'[p])].payload.path
          IN  /\ Len(offered'[p]) = Len(offered[p]) + 1
              /\ path \in ToOffer(p)
              /\ path \notin ToOffer(p)'
    /\ listed'[p] # listed[p] =>
          LET path == listed'[p][Len(listed'[p])]
          IN  /\ Len(listed'[p]) = Len(listed[p]) + 1
              /\ path \in ToOpen(p)
              /\ path \notin ToOpen(p)'
    /\ (pc[p] = "walk" /\ stack'[p] # stack[p] /\ Top(p).stage = "check") =>
          LET e == ErrorEntry(<<Top(p).path>>, "Aborted")
              n == Len(stack[p])
          IN  IF n = 1
              THEN stack'[p] = <<>> /\ walked'[p] = <<e>>
              ELSE LET caller == stack'[p][n - 1]
                   IN  /\ Len(stack'[p]) = n - 1
                       /\ caller.entries = Append(stack[p][n - 1].entries, e)
                       /\ caller.todo = stack[p][n - 1].todo

\* C22: while the flag is set and stays set, a call of
\* analyze_directory_recursive that reaches its check of the flag returns the
\* "Aborted" Error entry of its directory without offering progress or
\* opening the directory; no directory passes its check; progress is offered
\* and a directory is opened only for the one directory, if any, whose check
\* had passed before the flag was set, and only once.
C22_OnlyThePassedDirectoryGoesOn ==
    [][ (should_abort /\ should_abort') => \A p \in Workers : StepUnderFlag(p) ]_vars

\* With the flag set, a directory was resolved to "Aborted" while entries of
\* the directory it lies in are still to be processed.
C22_Witness ==
    /\ should_abort
    /\ \E p \in Workers :
          /\ pc[p] = "walk"
          /\ \E i \in 1..Len(stack[p]) :
                /\ stack[p][i].todo # <<>>
                /\ \E j \in 1..Len(stack[p][i].entries) :
                      /\ stack[p][i].entries[j].type = "Error"
                      /\ stack[p][i].entries[j].reason = "Aborted"

(***************************************************************************)
(* Overlapping analyses.                                                   *)
(***************************************************************************)
\* An entry holds, at some level, an Error entry with reason "Aborted".
RECURSIVE HoldsAborted(_)
HoldsAborted(e) ==
    \/ e.type = "Error" /\ e.reason = "Aborted"
    \/ /\ e.type = "Dir"
       /\ \E i \in 1..Len(e.content) : HoldsAborted(e.content[i])

\* C23: with two invocations of analyze_disk_usage overlapping and abort
\* called during them, no invocation returns a Dir tree that holds an
\* "Aborted" Error entry, the slot never holds one, and an invocation whose
\* traversal saw the flag set returns the sole "Aborted" entry of its root.
C23_NoAbortedEntryInATree ==
    /\ saved_result # <<>> => ~HoldsAborted(saved_result[1])
    /\ \A p \in Workers :
          /\ (ret[p] # <<>> /\ ret[p][1].type = "Dir") => ~HoldsAborted(ret[p][1])
          /\ (pc[p] = "done" /\ HoldsAborted(walked[p][1])) =>
                ret[p] = <<Aborted(root[p])>>

(***************************************************************************)
(* Failures on single entries.                                             *)
(***************************************************************************)
\* e is the entry the traversal owes the item of a listing: an Error entry
\* where the item cannot be read, its metadata cannot be read or it cannot be
\* listed, a File entry for a file, a Dir entry for a directory.
EntryOfItem(item, e) ==
    IF ~item.ok THEN e.type = "Error" /\ e.path = <<>> /\ e.reason # "Aborted"
    ELSE CASE Disk[item.path].kind = "NoMetadata" ->
                 e.type = "Error" /\ e.path = <<item.path>> /\ e.reason # "Aborted"
           [] Disk[item.path].kind = "File" ->
                 e = FileEntry(item.path, Disk[item.path].size)
           [] Disk[item.path].kind = "Dir" ->
                 e.type = "Dir" /\ e.path = item.path
           [] OTHER ->
                 e.type = "Error" /\ e.path = <<item.path>> /\ e.reason # "Aborted"

\* The content of a listed directory answers its listing item by item.
ContentAnswersListing(d) ==
    LET listing == read_dir(d.path).listing
    IN  /\ Len(d.content) = Len(listing)
        /\ \A i \in 1..Len(listing) : EntryOfItem(listing[i], d.content[i])

NoDuplicates(seq) == \A i, j \in 1..Len(seq) : seq[i] = seq[j] => i = j

\* C24: in an analysis during which the flag is never set, the content of
\* every Dir entry has one entry for every item of the directory's listing, in
\* the listing's order: an Error entry for an item that cannot be read, whose
\* metadata cannot be read or that cannot be listed, and the entry of every
\* other item whatever failed before it; a directory being listed has lost no
\* item; and no directory is listed twice.
C24_FailuresDoNotStopTraversal ==
    \A p \in Workers :
        (abort_at[p] = "none" /\ pc[p] # "idle") =>
            /\ NoDuplicates(listed[p])
            /\ \A i \in 1..Len(stack[p]) :
                  LET f == stack[p][i]
                      listing == read_dir(f.path).listing
                  IN  /\ f.stage = "loop" =>
                            Len(f.entries) + Len(f.todo)
                                + (IF i < Len(stack[p]) THEN 1 ELSE 0) = Len(listing)
                      /\ \A j \in 1..Len(f.entries) :
                            /\ EntryOfItem(listing[j], f.entries[j])
                            /\ \A d \in DirNodes(f.entries[j]) : ContentAnswersListing(d)
            /\ walked[p] # <<>> =>
                  \A d \in DirNodes(walked[p][1]) : ContentAnswersListing(d)

\* An analysis without abort has returned a tree in which a directory holds
\* the Error entry of an item between the entries of an earlier and of a
\* later item.
C24_Witness ==
    \E p \in Workers :
        /\ abort_at[p] = "none"
        /\ pc[p] = "done"
        /\ walked[p] # <<>>
        /\ \E d \in DirNodes(walked[p][1]) :
              \E i \in 1..Len(d.content) :
                  /\ d.content[i].type = "Error"
                  /\ 1 < i /\ i < Len(d.content)
                  /\ d.content[i - 1].type = "File"
                  /\ d.content[i + 1].path = <<read_dir(d.path).listing[i + 1].path>>

(***************************************************************************)
(* The running total of the progress notification.                         *)
(***************************************************************************)
\* The File entries an entry contains, at every level.
RECURSIVE FilesIn(_)
FilesIn(e) ==
    CASE e.type = "File" -> 1
      [] e.type = "Error" -> 0
      [] e.type = "Dir" -> SumOver(FilesIn, e.content)

\* The File entries the traversal of invocation p has produced so far: those
\* in the entries of every call of analyze_directory_recursive in flight.
RECURSIVE FilesInFrames(_)
FilesInFrames(frames) ==
    IF frames = <<>> THEN 0
    ELSE SumOver(FilesIn, frames[1].entries) + FilesInFrames(Tail(frames))

\* The File entries in the directories whose listing is finished.
RECURSIVE FilesInFinishedDirs(_)
FilesInFinishedDirs(frames) ==
    IF frames = <<>> THEN 0
    ELSE LET dirs == SelectSeq(frames[1].entries, LAMBDA e : e.type = "Dir")
         IN  SumOver(FilesIn, dirs) + FilesInFinishedDirs(Tail(frames))

\* Invocation p has just offered the notification of the directory it is
\* about to open.
JustOffered(p) == pc[p] = "walk" /\ Top(p).stage = "read_dir"

LastOffer(p) == offered[p][Len(offered[p])].payload

TotalsNeverDecrease(p) ==
    \A i, j \in 1..Len(offered[p]) :
        i <= j => offered[p][i].payload.number_of_files_found
                      <= offered[p][j].payload.number_of_files_found

\* C25: the notification offered before a directory is opened carries the
\* directory's path and the number of File entries the traversal has produced
\* up to then, those of the directories still being listed included; the
\* totals of successive notifications never decrease.
C25_TotalCountsEveryFileSoFar ==
    \A p \in Workers :
        /\ TotalsNeverDecrease(p)
        /\ JustOffered(p) =>
              /\ LastOffer(p).path = Top(p).path
              /\ LastOffer(p).number_of_files_found = FilesInFrames(stack[p])

\* What the code keeps: the total counts the File entries of the directories
\* whose listing is finished, and only those.
C25_TotalCountsFinishedDirectories ==
    \A p \in Workers :
        /\ TotalsNeverDecrease(p)
        /\ JustOffered(p) =>
              /\ LastOffer(p).path = Top(p).path
              /\ LastOffer(p).number_of_files_found = FilesInFinishedDirs(stack[p])

(***************************************************************************)
(* load_nested_directory asked for the root of the cached tree.            *)
(***************************************************************************)
\* C26: load_nested_directory called with the path of the cached tree's own
\* root returns the copy of the root flattened to two levels, not none.
C26_LoadOfRootReturnsRoot ==
    (/\ load_pc = "idle"
     /\ load_req # <<>>
     /\ load_req[1].seen # <<>>
     /\ load_req[1].seen[1].path = load_req[1].path)
    => loaded[1].out = <<clone_flat(load_req[1].seen[1], 2)>>

====
